---- MODULE Spec2Model ----
(***************************************************************************)
(* A state-machine model of env_canada/ec_radar.py: one ECRadar object,    *)
(* the module-level parameter dictionaries it writes, the remote map       *)
(* services it queries, and one get_dimensions / get_latest_frame /        *)
(* get_loop call at a time on the asyncio event loop.                      *)
(*                                                                         *)
(* A datetime is [t |-> instant in seconds, off |-> UTC offset in seconds] *)
(* (a timezone-aware value); its wall-clock reading is t + off.            *)
(***************************************************************************)
EXTENDS Integers, Sequences, FiniteSets, TLC

\* ------------------------------------------------------------------ bounds

\* The service publishes instants on a 5-minute grid, ticks 0..MaxTick.
MaxTick == 5

\* The number of worker threads that build and use an ECRadar object.
NumThreads == 2

\* ------------------------------------------------------- program constants

CadenceMinutes == 10

PadCount == 3

DefaultRadius == 200

DefaultWidth == 800

DefaultHeight == 800

\* ------------------------------------------------------- module-level data

PrecipTypes == {"rain", "snow"}

layer == [rain |-> "RADAR_1KM_RRAI", snow |-> "RADAR_1KM_RSNO"]

legend_style == [rain |-> "RADARURPPRECIPR", snow |-> "RADARURPPRECIPS14"]

LayerNames == {layer[p] : p \in PrecipTypes}

\* ---------------------------------------------------------------- datetimes

DT(t, off) == [t |-> t, off |-> off]

NoTime == DT(0 - 1, 0)

GridSeconds == 5 * 60

Instants == {k * GridSeconds : k \in 0..MaxTick}

UtcOffsets == {0, 0 - 5 * 3600}

DateTimes == {DT(t, off) : t \in Instants, off \in UtcOffsets}

\* The (start, end) pairs the service publishes: any two instants of the
\* grid, in either order, written with the same UTC offset.
PublishedRanges ==
    {<<DT(s, off), DT(e, off)>> : s \in Instants, e \in Instants, off \in UtcOffsets}

\* datetime + datetime.timedelta(minutes=m): the instant moves, the tzinfo stays
AddMinutes(dt, m) == [dt EXCEPT !.t = @ + m * 60]

\* (a variant of After: the comparison also true of equal instants)
AfterOrEqual(a, b) == a.t >= b.t

\* a > b on timezone-aware datetimes compares the instants
After(a, b) == a.t > b.t

\* end.isoformat(): the wall-clock reading followed by the UTC offset
IsoFormat(dt) == [kind |-> "isoformat", wall |-> dt.t + dt.off, off |-> dt.off]

\* frame_time.strftime("%Y-%m-%dT%H:%M:00Z"): the wall-clock fields of the
\* value as it stands, seconds replaced by 00, followed by a literal Z
StrfTime(dt) == ((dt.t + dt.off) \div 60) * 60

\* frame_time.astimezone().strftime("%H:%M"): minutes of the day on the host
LocalHHMM(dt, tz) == ((dt.t + tz) \div 60) % (24 * 60)

Title(p) == IF p = "rain" THEN "Rain" ELSE IF p = "snow" THEN "Snow" ELSE p

Lower(p) == IF p \in {"rain", "Rain", "RAIN"} THEN "rain"
            ELSE IF p \in {"snow", "Snow", "SNOW"} THEN "snow" ELSE p

\* ------------------------------------------------------ capability document

\* One "/"-separated field of a Dimension text: an ISO-8601 timestamp, an
\* ISO-8601 duration (the step), or text that is neither.
IsoField(dt) == [tok |-> "iso", t |-> dt.t, off |-> dt.off]

DurationField == [tok |-> "duration", t |-> 0, off |-> 0]

JunkField == [tok |-> "junk", t |-> 0, off |-> 0]

\* A Layer element of the document: its Name, whether it has a Dimension
\* child, whether that child has text, and the text split at "/".
LayerEntry(name, has_dim, has_text, text) ==
    [name |-> name, has_dimension |-> has_dim, has_text |-> has_text, text |-> text]

DimensionTexts ==
    {<<IsoField(s)>> : s \in DateTimes}
    \cup {<<JunkField>>}
    \cup {<<IsoField(r[1]), IsoField(r[2])>> : r \in PublishedRanges}
    \cup {<<IsoField(r[1]), IsoField(r[2]), DurationField>> : r \in PublishedRanges}
    \cup {<<IsoField(r[1]), IsoField(r[2]), JunkField>> : r \in PublishedRanges}
    \cup {<<JunkField, IsoField(e)>> : e \in DateTimes}
    \cup {<<IsoField(s), JunkField>> : s \in DateTimes}

OtherLayer(name) == CHOOSE n \in LayerNames : n # name

\* The other layer's entry, listed first in every document.
DecoyEntry(name) ==
    LayerEntry(OtherLayer(name), TRUE, TRUE,
               <<IsoField(DT(GridSeconds, 0)), IsoField(DT(3 * GridSeconds, 0))>>)

LayerEntries(name) ==
    {LayerEntry(name, FALSE, FALSE, <<JunkField>>),
     LayerEntry(name, TRUE, FALSE, <<JunkField>>)}
    \cup {LayerEntry(name, TRUE, TRUE, txt) : txt \in DimensionTexts}

CapDoc(transport, xml_ok, layers) ==
    [transport |-> transport, wellformed_xml |-> xml_ok, layers |-> layers]

\* What the service may answer to a capability request for layer `name`.
CapabilityResponses(name) ==
    {CapDoc("error", FALSE, <<>>), CapDoc("ok", FALSE, <<>>),
     CapDoc("ok", TRUE, <<DecoyEntry(name)>>)}
    \cup {CapDoc("ok", TRUE, <<DecoyEntry(name), e>>) : e \in LayerEntries(name)}

NoDoc == CapDoc("none", FALSE, <<>>)

\* (a variant of FindDimension: the xpath without its Name predicate)
FindDimensionAnyLayer(d, name) ==
    LET hits == {i \in 1..Len(d.layers) : d.layers[i].has_dimension}
    IN IF hits = {} THEN [found |-> FALSE, has_text |-> FALSE, text |-> <<JunkField>>]
       ELSE LET i == CHOOSE j \in hits : \A k \in hits : j <= k
            IN [found |-> TRUE, has_text |-> d.layers[i].has_text,
                text |-> d.layers[i].text]

\* capabilities_tree.find(dimension_xpath.format(layer=...)): the Dimension of
\* the first Layer with that Name that has one, or None
FindDimension(d, name) ==
    LET hits == {i \in 1..Len(d.layers) :
                     d.layers[i].name = name /\ d.layers[i].has_dimension}
    IN IF hits = {} THEN [found |-> FALSE, has_text |-> FALSE, text |-> <<JunkField>>]
       ELSE LET i == CHOOSE j \in hits : \A k \in hits : j <= k
            IN [found |-> TRUE, has_text |-> d.layers[i].has_text,
                text |-> d.layers[i].text]

\* dateutil.parser.isoparse
isoparse(field) ==
    IF field.tok = "iso" THEN [ok |-> TRUE, val |-> DT(field.t, field.off)]
    ELSE [ok |-> FALSE, val |-> NoTime]

Raised(exc) == [ok |-> FALSE, exc |-> exc, start |-> NoTime, end |-> NoTime]

\* dimension_string.split("/")[:2]
FirstTwo(text) == SubSeq(text, 1, IF Len(text) < 2 THEN Len(text) ELSE 2)

\* What get_dimensions computes from the service's answer: the pair it
\* returns, or the exception that ends it.
ParseDimensions(d, name) ==
    IF d.transport # "ok" THEN Raised("ConnectionError")
    ELSE IF ~d.wellformed_xml THEN Raised("ParseError")
    ELSE LET dim == FindDimension(d, name)
         IN IF ~dim.found \/ ~dim.has_text THEN Raised("AttributeError")
            ELSE LET parts == FirstTwo(dim.text)
                     parsed == [i \in 1..Len(parts) |-> isoparse(parts[i])]
                 IN IF \E i \in 1..Len(parts) : ~parsed[i].ok THEN Raised("ValueError")
                    ELSE IF Len(parts) # 2 THEN Raised("ValueError")
                    ELSE [ok |-> TRUE, exc |-> "none",
                          start |-> parsed[1].val, end |-> parsed[2].val]

\* ----------------------------------------------------- requests and bodies

\* dict(**radar_params, **self.map_params, layers=self.layer, time=...)
RadarParams(r, frame_time) ==
    [request |-> "GetMap", layers |-> r.layer, bbox |-> r.map_params.bbox,
     width |-> r.map_params.width, height |-> r.map_params.height,
     time |-> StrfTime(frame_time)]

NoParams ==
    [request |-> "none", layers |-> "none", bbox |-> "none",
     width |-> 0, height |-> 0, time |-> 0]

\* A response body: a decodable image or other text, the map that was asked
\* for or the service's exception report, and the request it answers.
Body(kind, src, params) == [kind |-> kind, src |-> src, of |-> params]

NoBody == Body("none", "none", NoParams)

\* What the service may answer to a GetMap request: a transport failure, a
\* success status with the raster, or a non-success status with an
\* exception report (as text or as an image).
TileOutcomes(params) ==
    {[state |-> "raised", status |-> 0, body |-> NoBody, params |-> params],
     [state |-> "returned", status |-> 200, body |-> Body("png", "map", params),
      params |-> params],
     [state |-> "returned", status |-> 500, body |-> Body("text", "exception", params),
      params |-> params],
     [state |-> "returned", status |-> 500, body |-> Body("png", "exception", params),
      params |-> params]}

PendingTask(params) ==
    [state |-> "pending", status |-> 0, body |-> NoBody, params |-> params]

\* -------------------------------------------------------------- compositing

NoFrame ==
    [base |-> NoBody, radar |-> NoBody, legend |-> "none",
     legend_position |-> <<0, 0>>, label |-> <<"none", 0>>]

\* timestamp = self.precip_type.title() + " @ " + local HH:MM
Label(r, frame_time, tz) == <<Title(r.precip_type), LocalHHMM(frame_time, tz)>>

\* combine_layers: Image.open raises on bytes that are no image; otherwise
\* the frame is basemap + radar + legend at its position + label.
CombineLayers(r, radar_bytes, frame_time, tz) ==
    IF r.base_bytes.kind # "png" \/ radar_bytes.kind # "png"
    THEN [ok |-> FALSE, frame |-> NoFrame]
    ELSE [ok |-> TRUE,
          frame |-> [base |-> r.base_bytes, radar |-> radar_bytes,
                     legend |-> r.legend_image,
                     legend_position |-> r.legend_position,
                     label |-> Label(r, frame_time, tz)]]

\* for i, f in enumerate(radar_layers): frames.append(combine_layers(f,
\* frame_times[i])), stopping at the first frame that raises
RECURSIVE CombineFrom(_, _, _, _, _, _)
CombineFrom(r, layers, times, tz, i, acc) ==
    IF i > Len(layers) THEN [ok |-> TRUE, frames |-> acc]
    ELSE LET c == CombineLayers(r, layers[i], times[i], tz)
         IN IF c.ok THEN CombineFrom(r, layers, times, tz, i + 1, Append(acc, c.frame))
            ELSE [ok |-> FALSE, frames |-> acc]

\* (a variant of PadFrames: the first frame repeated instead of the last)
RECURSIVE PadFramesFirst(_, _)
PadFramesFirst(fs, n) == IF n = 0 THEN fs ELSE PadFramesFirst(Append(fs, fs[1]), n - 1)

\* for f in range(3): frames.append(frames[-1])
RECURSIVE PadFrames(_, _)
PadFrames(fs, n) == IF n = 0 THEN fs ELSE PadFrames(Append(fs, fs[Len(fs)]), n - 1)

\* --------------------------------------------------------------- scheduling

\* The while loop of get_loop over frame_times, entered with [start].
RECURSIVE ScheduleLoop(_, _)
ScheduleLoop(ft, e) ==
    LET next_frame == AddMinutes(ft[Len(ft)], CadenceMinutes)
    IN IF After(next_frame, e) THEN ft ELSE ScheduleLoop(Append(ft, next_frame), e)

\* (a variant of FrameTimes: the list entered with the earlier of the two)
FrameTimesClamped(s, e) == ScheduleLoop(<<IF After(s, e) THEN e ELSE s>>, e)

\* frame_times = [start], then the loop
FrameTimes(s, e) == ScheduleLoop(<<s>>, e)

\* (a variant of LatestOf: element 0 of the pair)
LatestOfFirst(s, e) == s

\* latest = self.get_dimensions()[1]
LatestOf(s, e) == e

\* (a variant of GatherResults: results in the order of completion)
GatherResultsAsCompleted(ts, done) == [k \in 1..Len(ts) |-> ts[done[k]].body]

\* asyncio.gather(*tasks): results in the order of the awaitables passed in,
\* whatever the order `done` in which they completed
GatherResults(ts, done) == [i \in 1..Len(ts) |-> ts[i].body]

\* ------------------------------------------------------------------- state

VARIABLES
    radar,                \* the ECRadar object's attributes
    legend_params,        \* module-level dict, keys layer and style
    basemap_params,       \* module-level dict, keys bbox, width, height
    capabilities_params,  \* module-level dict, key layer
    legend_requests,      \* GetLegendGraphic requests issued, in order
    basemap_requests,     \* basemap GetMap requests issued, in order
    localtz,              \* the host's UTC offset, in seconds
    op,                   \* the method being run
    pc,                   \* where that call stands
    stages,               \* the stages the call has entered, in order
    doc,                  \* the capability response of this call
    capability_requests,  \* capability requests issued by this call
    start,                \* get_loop's local start
    end,                  \* get_loop's local end / get_latest_frame's latest
    frame_times,          \* get_loop's local frame_times
    tasks,                \* the call's get_radar_image coroutines
    completed,            \* indices of tasks in the order they completed
    tile_requests,        \* radar GetMap requests issued by this call
    session_closed,       \* the call's ClientSession has been closed
    radar_layers,         \* what the await of the fetches returned
    frames,               \* composite frames built so far
    encoder_input,        \* the frame list handed to imageio
    result,               \* what the call returned
    error,                \* the exception that ended the call
    timestamp_at_call,    \* history: self.timestamp when the still's call began
    threads,              \* ECRadar users on threads of their own
    sent                  \* the requests those threads have issued

vars ==
    <<radar, legend_params, basemap_params, capabilities_params, legend_requests,
      basemap_requests, localtz, op, pc, stages, doc, capability_requests, start,
      end, frame_times, tasks, completed, tile_requests, session_closed,
      radar_layers, frames, encoder_input, result, error, timestamp_at_call,
      threads, sent>>

sessionVars ==
    <<legend_params, basemap_params, legend_requests, basemap_requests, localtz,
      threads, sent>>

Methods == {"get_dimensions", "get_latest_frame", "get_loop"}

NoError == [stage |-> "none", exc |-> "none"]

NoResult == [kind |-> "none", frames |-> <<>>]

\* The value of timestamp_at_call while no call is running.
NotInCall == [kind |-> "none", wall |-> 0, off |-> 0]

\* ------------------------------------------------------------ construction

Months == 1..12

\* precip_type.lower() if given, else by the month of today
PrecipType(precip_arg, month) ==
    IF precip_arg # "None" THEN Lower(precip_arg)
    ELSE IF month \in 4..10 THEN "rain" ELSE "snow"

\* The legend the service draws for a layer and style.
LegendImage(params) == <<"legend", params.layer, params.style>>

LegendSize(image) == <<100, 300>>

\* The bounding box get_bounding_box computes, as the string of map_params.
BBoxString(radius, coordinates) == <<"bbox", radius, coordinates>>

\* ECRadar.__init__: the attributes, the module-level dictionaries it
\* updates, and the two requests it issues.
Construct(precip_arg, month, radius, coordinates, width, height, base_kind) ==
    LET precip == PrecipType(precip_arg, month)
        lparams == [layer |-> layer[precip], style |-> legend_style[precip]]
        legend == LegendImage(lparams)
        mparams == [bbox |-> BBoxString(radius, coordinates),
                    width |-> width, height |-> height]
    IN [self |-> [precip_type |-> precip,
                  layer |-> layer[precip],
                  legend_image |-> legend,
                  legend_position |-> <<width - LegendSize(legend)[1], 0>>,
                  bbox |-> BBoxString(radius, coordinates),
                  map_params |-> mparams,
                  width |-> width,
                  height |-> height,
                  base_bytes |-> Body(base_kind, "basemap", NoParams),
                  timestamp |-> [kind |-> "datetime", wall |-> 0, off |-> 0]],
        legend_params |-> lparams,
        basemap_params |-> mparams,
        legend_requests |-> <<lparams>>,
        basemap_requests |-> <<mparams>>]

InitObject ==
    /\ \E precip_arg \in {"None", "rain", "Snow"}, month \in Months,
          base_kind \in {"png", "text"} :
          LET c == Construct(precip_arg, month, DefaultRadius, <<50, 0 - 105>>,
                             DefaultWidth, DefaultHeight, base_kind)
          IN /\ radar = c.self
             /\ legend_params = c.legend_params
             /\ basemap_params = c.basemap_params
             /\ legend_requests = c.legend_requests
             /\ basemap_requests = c.basemap_requests
    /\ capabilities_params = [layer |-> "none"]
    /\ localtz \in UtcOffsets
    /\ op = "none"
    /\ pc = "idle"
    /\ stages = <<>>
    /\ doc = NoDoc
    /\ capability_requests = <<>>
    /\ start = NoTime
    /\ end = NoTime
    /\ frame_times = <<>>
    /\ tasks = <<>>
    /\ completed = <<>>
    /\ tile_requests = <<>>
    /\ session_closed = FALSE
    /\ radar_layers = <<>>
    /\ frames = <<>>
    /\ encoder_input = <<>>
    /\ result = NoResult
    /\ error = NoError
    /\ timestamp_at_call = NotInCall

\* One object, built on the main thread, and no other thread.
Init ==
    /\ InitObject
    /\ threads = <<>>
    /\ sent = {}

\* ------------------------------------------------------------------ actions

\* self.timestamp = end.isoformat()
StoreTimestamp(r, e) == [r EXCEPT !.timestamp = IsoFormat(e)]

\* (a variant of AfterGetDimensions: the attribute assigned whether or not
\* the parse succeeded)
AfterGetDimensionsEager(r, res) == StoreTimestamp(r, res.end)

\* The object when get_dimensions is left: the timestamp is assigned on
\* line 160 only, after both endpoints are parsed; an exception before it
\* leaves the object as it was.
AfterGetDimensions(r, res) == IF res.ok THEN StoreTimestamp(r, res.end) ELSE r

\* A call of one of the three methods, up to the return of its
\* get_dimensions: the capability request, the parse, the timestamp.
Call(m) ==
    /\ pc = "idle"
    /\ op' = m
    /\ capabilities_params' = [capabilities_params EXCEPT !.layer = radar.layer]
    /\ capability_requests' = <<capabilities_params'>>
    /\ \E d \in CapabilityResponses(capabilities_params'.layer) :
          LET res == ParseDimensions(d, radar.layer)
          IN /\ doc' = d
             /\ start' = res.start
             /\ end' = res.end
             /\ radar' = AfterGetDimensions(radar, res)
             /\ IF res.ok
                THEN /\ pc' = IF m = "get_dimensions" THEN "returned" ELSE "resolved"
                     /\ stages' = <<"ResolvingRange">>
                     /\ result' = IF m = "get_dimensions"
                                  THEN [kind |-> "range", frames |-> <<>>]
                                  ELSE NoResult
                     /\ error' = NoError
                ELSE /\ pc' = "raised"
                     /\ stages' = <<"ResolvingRange", "Failed">>
                     /\ result' = NoResult
                     /\ error' = [stage |-> "resolve", exc |-> res.exc]
    /\ frame_times' = <<>>
    /\ tasks' = <<>>
    /\ completed' = <<>>
    /\ tile_requests' = <<>>
    /\ session_closed' = FALSE
    /\ radar_layers' = <<>>
    /\ frames' = <<>>
    /\ encoder_input' = <<>>
    /\ timestamp_at_call' = IF m = "get_latest_frame" THEN radar.timestamp
                            ELSE NotInCall
    /\ UNCHANGED sessionVars

\* get_loop, lines 217-224: the list of frame timestamps.
LoopSchedule ==
    /\ op = "get_loop"
    /\ pc = "resolved"
    /\ frame_times' = FrameTimes(start, end)
    /\ pc' = "scheduled"
    /\ stages' = Append(stages, "Scheduling")
    /\ UNCHANGED <<radar, capabilities_params, sessionVars, timestamp_at_call, op, doc,
                   capability_requests, start, end, tasks, completed,
                   tile_requests, session_closed, radar_layers, frames,
                   encoder_input, result, error>>

\* get_loop, lines 228-232: one get_radar_image per frame time, all started
\* by gather, each issuing its request.
LoopGather ==
    /\ op = "get_loop"
    /\ pc = "scheduled"
    /\ tasks' = [i \in 1..Len(frame_times) |->
                     PendingTask(RadarParams(radar, frame_times[i]))]
    /\ tile_requests' = [i \in 1..Len(frame_times) |->
                             RadarParams(radar, frame_times[i])]
    /\ pc' = "fetching"
    /\ stages' = Append(stages, "FetchingFrames")
    /\ UNCHANGED <<radar, capabilities_params, sessionVars, timestamp_at_call, op, doc,
                   capability_requests, start, end, frame_times, completed,
                   session_closed, radar_layers, frames, encoder_input, result,
                   error>>

\* (a variant of LatestFetch: when an earlier call left an end in
\* self.timestamp, the image is requested for that remembered end)
LatestFetchRemembered ==
    LET latest == IF timestamp_at_call.kind = "isoformat"
                  THEN DT(timestamp_at_call.wall - timestamp_at_call.off,
                          timestamp_at_call.off)
                  ELSE LatestOf(start, end)
    IN
    /\ op = "get_latest_frame"
    /\ pc = "resolved"
    /\ tasks' = <<PendingTask(RadarParams(radar, latest))>>
    /\ tile_requests' = <<RadarParams(radar, latest)>>
    /\ pc' = "fetching"
    /\ stages' = Append(stages, "FetchingFrames")
    /\ UNCHANGED <<radar, capabilities_params, sessionVars, timestamp_at_call, op, doc,
                   capability_requests, start, end, frame_times, completed,
                   session_closed, radar_layers, frames, encoder_input, result,
                   error>>

\* get_latest_frame, lines 208-209: the single get_radar_image for latest.
LatestFetch ==
    /\ op = "get_latest_frame"
    /\ pc = "resolved"
    /\ tasks' = <<PendingTask(RadarParams(radar, LatestOf(start, end)))>>
    /\ tile_requests' = <<RadarParams(radar, LatestOf(start, end))>>
    /\ pc' = "fetching"
    /\ stages' = Append(stages, "FetchingFrames")
    /\ UNCHANGED <<radar, capabilities_params, sessionVars, timestamp_at_call, op, doc,
                   capability_requests, start, end, frame_times, completed,
                   session_closed, radar_layers, frames, encoder_input, result,
                   error>>

\* get_radar_image, lines 202-203: the service answers task i, which
\* returns the body it read or raises. A task left behind by a call that
\* has already raised still runs to its end.
FetchRespond(i) ==
    /\ pc \in {"fetching", "raised"}
    /\ i \in 1..Len(tasks)
    /\ tasks[i].state = "pending"
    /\ \E o \in TileOutcomes(tasks[i].params) : tasks' = [tasks EXCEPT ![i] = o]
    /\ completed' = Append(completed, i)
    /\ UNCHANGED <<radar, capabilities_params, sessionVars, timestamp_at_call, op, pc, stages, doc,
                   capability_requests, start, end, frame_times, tile_requests,
                   session_closed, radar_layers, frames, encoder_input, result,
                   error>>

\* The await of the fetches returns or raises, and the ClientSession's
\* async with block is left: gather raises as soon as one task has raised,
\* and returns once all have returned.
AwaitFetches ==
    /\ pc = "fetching"
    /\ \/ \E i \in 1..Len(tasks) : tasks[i].state = "raised"
       \/ \A i \in 1..Len(tasks) : tasks[i].state = "returned"
    /\ session_closed' = TRUE
    /\ IF \E i \in 1..Len(tasks) : tasks[i].state = "raised"
       THEN /\ pc' = "raised"
            /\ stages' = Append(stages, "Failed")
            /\ error' = [stage |-> "fetch", exc |-> "ClientError"]
            /\ radar_layers' = radar_layers
       ELSE /\ pc' = "fetched"
            /\ stages' = stages
            /\ error' = error
            /\ radar_layers' = GatherResults(tasks, completed)
    /\ UNCHANGED <<radar, capabilities_params, sessionVars, timestamp_at_call, op, doc,
                   capability_requests, start, end, frame_times, tasks, completed,
                   tile_requests, frames, encoder_input, result>>

\* get_loop, lines 234-237: the composite of every fetched layer, in order.
LoopComposite ==
    /\ op = "get_loop"
    /\ pc = "fetched"
    /\ LET c == CombineFrom(radar, radar_layers, frame_times, localtz, 1, <<>>)
       IN /\ frames' = c.frames
          /\ IF c.ok
             THEN /\ pc' = "composited"
                  /\ stages' = Append(stages, "Compositing")
                  /\ error' = error
             ELSE /\ pc' = "raised"
                  /\ stages' = stages \o <<"Compositing", "Failed">>
                  /\ error' = [stage |-> "composite", exc |-> "UnidentifiedImageError"]
    /\ UNCHANGED <<radar, capabilities_params, sessionVars, timestamp_at_call, op, doc,
                   capability_requests, start, end, frame_times, tasks, completed,
                   tile_requests, session_closed, radar_layers, encoder_input,
                   result>>

\* get_loop, lines 239-247: the pause frames, the encoder, the return.
LoopAssemble ==
    /\ op = "get_loop"
    /\ pc = "composited"
    /\ frames' = PadFrames(frames, PadCount)
    /\ encoder_input' = frames'
    /\ result' = [kind |-> "gif", frames |-> encoder_input']
    /\ pc' = "returned"
    /\ stages' = Append(stages, "Assembled")
    /\ UNCHANGED <<radar, capabilities_params, sessionVars, timestamp_at_call, op, doc,
                   capability_requests, start, end, frame_times, tasks, completed,
                   tile_requests, session_closed, radar_layers, error>>

\* (a variant of LatestComposite: combine_layers requests the basemap anew
\* for the frame instead of reading self.base_bytes)
LatestCompositeRefetch ==
    /\ op = "get_latest_frame"
    /\ pc = "fetched"
    /\ basemap_requests' = Append(basemap_requests, basemap_params)
    /\ radar' = [radar EXCEPT !.base_bytes = Body("png", "basemap", tile_requests[1])]
    /\ LET c == CombineLayers(radar', radar_layers[1], LatestOf(start, end), localtz)
       IN /\ frames' = <<c.frame>>
          /\ result' = [kind |-> "png", frames |-> <<c.frame>>]
          /\ pc' = "returned"
          /\ stages' = stages \o <<"Compositing", "Assembled">>
          /\ error' = error
    /\ UNCHANGED <<capabilities_params, legend_params, basemap_params,
                   legend_requests, localtz, op, doc, capability_requests, start,
                   end, frame_times, tasks, completed, tile_requests,
                   session_closed, radar_layers, encoder_input,
                   timestamp_at_call, threads, sent>>

\* get_latest_frame, line 210: the composite of the fetched layer.
LatestComposite ==
    /\ op = "get_latest_frame"
    /\ pc = "fetched"
    /\ LET c == CombineLayers(radar, radar_layers[1], LatestOf(start, end), localtz)
       IN IF c.ok
          THEN /\ frames' = <<c.frame>>
               /\ result' = [kind |-> "png", frames |-> <<c.frame>>]
               /\ pc' = "returned"
               /\ stages' = stages \o <<"Compositing", "Assembled">>
               /\ error' = error
          ELSE /\ frames' = frames
               /\ result' = result
               /\ pc' = "raised"
               /\ stages' = stages \o <<"Compositing", "Failed">>
               /\ error' = [stage |-> "composite", exc |-> "UnidentifiedImageError"]
    /\ UNCHANGED <<radar, capabilities_params, sessionVars, timestamp_at_call, op, doc,
                   capability_requests, start, end, frame_times, tasks, completed,
                   tile_requests, session_closed, radar_layers, encoder_input>>

\* The call ends: the caller has the value or the exception, and the
\* call's locals are gone. The object and the module-level dictionaries stay.
Return ==
    /\ pc \in {"returned", "raised"}
    /\ op' = "none"
    /\ pc' = "idle"
    /\ stages' = <<>>
    /\ doc' = NoDoc
    /\ capability_requests' = <<>>
    /\ start' = NoTime
    /\ end' = NoTime
    /\ frame_times' = <<>>
    /\ tasks' = <<>>
    /\ completed' = <<>>
    /\ tile_requests' = <<>>
    /\ session_closed' = FALSE
    /\ radar_layers' = <<>>
    /\ frames' = <<>>
    /\ encoder_input' = <<>>
    /\ result' = NoResult
    /\ error' = NoError
    /\ timestamp_at_call' = NotInCall
    /\ UNCHANGED <<radar, capabilities_params, sessionVars>>

Next ==
    \/ \E m \in Methods : Call(m)
    \/ LoopSchedule
    \/ LoopGather
    \/ LatestFetch
    \/ \E i \in 1..Len(tasks) : FetchRespond(i)
    \/ AwaitFetches
    \/ LoopComposite
    \/ LoopAssemble
    \/ LatestComposite
    \/ Return

Spec == Init /\ [][Next]_vars

\* ------------------------------------------- objects on several threads

\* __init__ and get_dimensions block on requests.get, so a program that
\* serves an event loop builds and queries its ECRadar objects on worker
\* threads. Each thread builds one object from its own arguments and then
\* asks for a still; the interpreter may switch threads between any two
\* statements. legend_params, basemap_params and capabilities_params are
\* the module-level dictionaries, one of each for all the objects.

ThreadIds == 1..NumThreads

NoBBox == BBoxString(0, <<0, 0>>)

\* The query of one request and the thread that issued it.
Request(by, request, layers, style, bbox, width, height, time) ==
    [by |-> by, request |-> request, layers |-> layers, style |-> style,
     bbox |-> bbox, width |-> width, height |-> height, time |-> time]

\* A thread about to call ECRadar(coordinates=..., precip_type=..., width=...).
NewThread(precip_arg, coordinates, width) ==
    [pc |-> "new",
     precip_arg |-> precip_arg, coordinates |-> coordinates, width |-> width,
     self |-> [layer |-> "none",
               legend_image |-> LegendImage([layer |-> "none", style |-> "none"]),
               map_params |-> [bbox |-> NoBBox, width |-> 0, height |-> 0]]]

threadFrame ==
    <<radar, legend_requests, basemap_requests, localtz, op, pc, stages, doc,
      capability_requests, start, end, frame_times, tasks, completed,
      tile_requests, session_closed, radar_layers, frames, encoder_input,
      result, error, timestamp_at_call>>

\* __init__, lines 106-119: self.layer and legend_params.update(...).
ThreadLegendParams(t) ==
    /\ threads[t].pc = "new"
    /\ LET precip == PrecipType(threads[t].precip_arg, 1)
       IN /\ threads' = [threads EXCEPT ![t].pc = "legend_params",
                                        ![t].self.layer = layer[precip]]
          /\ legend_params' = [layer |-> layer[precip],
                               style |-> legend_style[precip]]
    /\ UNCHANGED <<basemap_params, capabilities_params, sent, threadFrame>>

\* __init__, lines 120-121: requests.get(params=legend_params) and the
\* image kept from its answer.
ThreadLegendRequest(t) ==
    /\ threads[t].pc = "legend_params"
    /\ sent' = sent \cup {Request(t, "GetLegendGraphic", legend_params.layer,
                                  legend_params.style, NoBBox, 0, 0, 0)}
    /\ threads' = [threads EXCEPT ![t].pc = "legend",
                                  ![t].self.legend_image = LegendImage(legend_params)]
    /\ UNCHANGED <<legend_params, basemap_params, capabilities_params, threadFrame>>

\* __init__, lines 127-142: self.map_params and basemap_params.update(...).
ThreadBasemapParams(t) ==
    /\ threads[t].pc = "legend"
    /\ LET mparams == [bbox |-> BBoxString(DefaultRadius, threads[t].coordinates),
                       width |-> threads[t].width, height |-> DefaultHeight]
       IN /\ threads' = [threads EXCEPT ![t].pc = "basemap_params",
                                        ![t].self.map_params = mparams]
          /\ basemap_params' = mparams
    /\ UNCHANGED <<legend_params, capabilities_params, sent, threadFrame>>

\* __init__, lines 143-145: requests.get(params=basemap_params).
ThreadBasemapRequest(t) ==
    /\ threads[t].pc = "basemap_params"
    /\ sent' = sent \cup {Request(t, "GetMap", "CBMT", "", basemap_params.bbox,
                                  basemap_params.width, basemap_params.height, 0)}
    /\ threads' = [threads EXCEPT ![t].pc = "ready"]
    /\ UNCHANGED <<legend_params, basemap_params, capabilities_params, threadFrame>>

\* get_dimensions, line 149: capabilities_params["layer"] = self.layer.
ThreadCapabilitiesParams(t) ==
    /\ threads[t].pc = "ready"
    /\ capabilities_params' = [layer |-> threads[t].self.layer]
    /\ threads' = [threads EXCEPT ![t].pc = "capabilities_params"]
    /\ UNCHANGED <<legend_params, basemap_params, sent, threadFrame>>

\* get_dimensions, line 150: requests.get(params=capabilities_params).
ThreadCapabilitiesRequest(t) ==
    /\ threads[t].pc = "capabilities_params"
    /\ sent' = sent \cup {Request(t, "GetCapabilities", capabilities_params.layer,
                                  "", NoBBox, 0, 0, 0)}
    /\ threads' = [threads EXCEPT ![t].pc = "resolved"]
    /\ UNCHANGED <<legend_params, basemap_params, capabilities_params, threadFrame>>

\* get_radar_image, lines 196-202: params built from radar_params, the
\* object's own map_params and layer, and the frame time.
ThreadTileRequest(t) ==
    /\ threads[t].pc = "resolved"
    /\ \E e \in Instants :
          LET params == RadarParams(threads[t].self, DT(e, 0))
          IN sent' = sent \cup {Request(t, params.request, params.layers, "",
                                        params.bbox, params.width, params.height,
                                        params.time)}
    /\ threads' = [threads EXCEPT ![t].pc = "fetching"]
    /\ UNCHANGED <<legend_params, basemap_params, capabilities_params, threadFrame>>

\* The module has been imported and one object built on the main thread;
\* each worker thread has its own precipitation type, centre and width.
InitThreads ==
    /\ InitObject
    /\ localtz = 0
    /\ radar.base_bytes.kind = "png"
    /\ radar.precip_type = "rain"
    /\ threads \in [ThreadIds -> {NewThread(p, <<45 + 5 * w, 0 - 75>>,
                                              DefaultWidth \div w) :
                                        p \in PrecipTypes, w \in 1..2}]
    /\ sent = {}

NextThreads ==
    \E t \in ThreadIds :
        \/ ThreadLegendParams(t)
        \/ ThreadLegendRequest(t)
        \/ ThreadBasemapParams(t)
        \/ ThreadBasemapRequest(t)
        \/ ThreadCapabilitiesParams(t)
        \/ ThreadCapabilitiesRequest(t)
        \/ ThreadTileRequest(t)

SpecThreads == InitThreads /\ [][NextThreads]_vars

\* ================================================================== claims

CadenceSeconds == CadenceMinutes * 60

IsGetLoop == op = "get_loop"

IsLatest == op = "get_latest_frame"

\* A success status of an HTTP response.
SuccessStatus(status) == status >= 200 /\ status < 300

\* "<start>/<end>[/<step>]": two timestamps, optionally followed by a duration
WellFormedInterval(text) ==
    /\ Len(text) \in {2, 3}
    /\ text[1].tok = "iso"
    /\ text[2].tok = "iso"
    /\ Len(text) = 3 => text[3].tok = "duration"

\* A fetch that failed: the transport raised, or the status is no success.
TaskFailed(t) ==
    \/ t.state = "raised"
    \/ t.state = "returned" /\ ~SuccessStatus(t.status)

IsPrefix(a, b) == Len(a) <= Len(b) /\ SubSeq(b, 1, Len(a)) = a

\* The Dimension entries of the session's layer in the call's document.
OwnDimensions ==
    {i \in 1..Len(doc.layers) :
         doc.layers[i].name = radar.layer /\ doc.layers[i].has_dimension}

\* The call has the service's parsed capability document in hand.
HasDocument == doc.transport = "ok" /\ doc.wellformed_xml

\* ------------------------------------------------------------------- C1

\* C1: when get_loop returns, the frame list handed to the encoder has
\* len(frame_times) + 3 elements and its last 4 elements are all the
\* composite of the layer fetched for the last scheduled timestamp.
C1_PaddedAnimation ==
    (IsGetLoop /\ pc = "returned") =>
        LET n == Len(frame_times)
            last == CombineLayers(radar, tasks[n].body, frame_times[n], localtz)
        IN /\ n >= 1
           /\ Len(encoder_input) = n + 3
           /\ last.ok
           /\ \A k \in n..(n + 3) : encoder_input[k] = last.frame
           /\ result.frames = encoder_input

\* A returned animation of several distinct frames, so that the pause
\* frames differ from the first frame.
C1_Witness ==
    /\ IsGetLoop
    /\ pc = "returned"
    /\ Len(frame_times) >= 2
    /\ encoder_input[1] # encoder_input[Len(encoder_input)]

\* ------------------------------------------------------------------- C2

\* C2: in get_loop, whatever the order in which the fetches completed, the
\* i-th composite is built from the body answered to the request for the
\* i-th scheduled timestamp and is labelled with that timestamp, and the
\* timestamps ascend.
C2_FramesFollowTimestamps ==
    IsGetLoop =>
        \A i \in 1..Len(frame_times) :
            /\ i < Len(frame_times) => frame_times[i + 1].t > frame_times[i].t
            /\ i <= Len(tile_requests) =>
                   tile_requests[i].time = StrfTime(frame_times[i])
            /\ i <= Len(frames) =>
                   /\ frames[i].radar = tasks[i].body
                   /\ frames[i].radar.of = tile_requests[i]
                   /\ frames[i].label = Label(radar, frame_times[i], localtz)

\* Three fetches that completed last to first, and the animation returned.
C2_Witness ==
    /\ IsGetLoop
    /\ pc = "returned"
    /\ completed = <<3, 2, 1>>

\* ------------------------------------------------------------------- C3

\* C3: for end >= start the list built by get_loop is exactly
\* start + k * 10 min for k = 0 .. floor((end - start) / 10 min).
C3_ScheduleIsCadenceGrid ==
    (IsGetLoop /\ pc \notin {"resolved", "raised"} /\ end.t >= start.t) =>
        LET n == ((end.t - start.t) \div CadenceSeconds) + 1
        IN /\ Len(frame_times) = n
           /\ \A k \in 1..n :
                  frame_times[k] = DT(start.t + (k - 1) * CadenceSeconds, start.off)
           /\ frame_times[n].t <= end.t
           /\ frame_times[n].t + CadenceSeconds > end.t

\* end = start + 25 min scheduled as 3 timestamps.
C3_Witness ==
    /\ IsGetLoop
    /\ pc = "scheduled"
    /\ end.t = start.t + 25 * 60
    /\ Len(frame_times) = 3

\* ------------------------------------------------------------------- C4

\* C4: for end < start the scheduling loop of get_loop ends (the step that
\* runs it can be taken) and gives exactly [start].
C4_ReversedRangeGivesStart ==
    (IsGetLoop /\ end.t < start.t) =>
        /\ pc = "resolved" => ENABLED LoopSchedule
        /\ pc \notin {"resolved", "raised"} => frame_times = <<start>>

\* A published range that ends before it starts, scheduled.
C4_Witness ==
    /\ IsGetLoop
    /\ pc = "scheduled"
    /\ end.t < start.t
    /\ frame_times = <<start>>

\* ------------------------------------------------------------------- C5

\* C5: if one of the fetches of a get_loop call failed, no frame is
\* composited, the encoder is not invoked and nothing is returned.
C5_FetchFailureAborts ==
    (IsGetLoop /\ \E i \in 1..Len(tasks) : TaskFailed(tasks[i])) =>
        /\ frames = <<>>
        /\ encoder_input = <<>>
        /\ result = NoResult
        /\ pc # "returned"

\* ------------------------------------------------------------------- C6

\* C6: get_radar_image returns bytes only of a response with a success
\* status, and the body of a non-success response never reaches
\* combine_layers.
C6_NonSuccessIsFetchError ==
    /\ \A i \in 1..Len(tasks) :
           tasks[i].state = "returned" => SuccessStatus(tasks[i].status)
    /\ \A i \in 1..Len(radar_layers) : radar_layers[i].src # "exception"
    /\ \A i \in 1..Len(frames) : frames[i].radar.src # "exception"

\* ------------------------------------------------------------------- C7

\* C7 as stated: a document without a dimension entry for the layer, or
\* whose dimension text is not "<start>/<end>[/<step>]", makes
\* get_dimensions fail, return no pair, and the call issue no tile fetch.
C7_MalformedDimensionFails ==
    (HasDocument /\ (\/ OwnDimensions = {}
                     \/ \E i \in OwnDimensions :
                            \/ ~doc.layers[i].has_text
                            \/ ~WellFormedInterval(doc.layers[i].text))) =>
        /\ pc = "raised"
        /\ error.stage = "resolve"
        /\ start = NoTime /\ end = NoTime
        /\ result = NoResult
        /\ tile_requests = <<>>

\* C7 as amended: a document without a dimension entry for the layer, or
\* whose dimension has no text, fewer than two "/"-separated fields, or a
\* first or second field that is no ISO-8601 timestamp, makes
\* get_dimensions fail, return no pair (not even a start), and the call
\* issue no tile fetch.
C7_UnparseableDimensionFails ==
    (HasDocument /\ (\/ OwnDimensions = {}
                     \/ \E i \in OwnDimensions :
                            \/ ~doc.layers[i].has_text
                            \/ Len(doc.layers[i].text) < 2
                            \/ doc.layers[i].text[1].tok # "iso"
                            \/ doc.layers[i].text[2].tok # "iso")) =>
        /\ pc = "raised"
        /\ error.stage = "resolve"
        /\ start = NoTime /\ end = NoTime
        /\ result = NoResult
        /\ tile_requests = <<>>

\* A get_loop call ended by a dimension text that holds a start and nothing
\* else.
C7_Witness ==
    /\ IsGetLoop
    /\ pc = "raised"
    /\ HasDocument
    /\ \E i \in OwnDimensions :
           /\ doc.layers[i].has_text
           /\ Len(doc.layers[i].text) = 1
           /\ doc.layers[i].text[1].tok = "iso"

\* ------------------------------------------------------------------- C8

RunStages ==
    <<"ResolvingRange", "Scheduling", "FetchingFrames", "Compositing", "Assembled">>

StagesEntered == SelectSeq(stages, LAMBDA x : x # "Failed")

\* C8: a get_loop call enters the stages in the fixed order, requests the
\* capability document once and each scheduled timestamp once, is over once
\* a stage has failed, and enters no later stage after a failed fetch.
C8_StagesInOrderNoRetry ==
    IsGetLoop =>
        /\ IsPrefix(StagesEntered, RunStages)
        /\ Len(capability_requests) = 1
        /\ Len(tile_requests) \in {0, Len(frame_times)}
        /\ \A i, j \in 1..Len(tile_requests) :
               /\ tile_requests[i].time = StrfTime(frame_times[i])
               /\ i # j => tile_requests[i] # tile_requests[j]
        /\ \A k \in 1..Len(stages) :
               stages[k] = "Failed" => k = Len(stages) /\ pc = "raised"
        /\ (\E i \in 1..Len(tasks) : TaskFailed(tasks[i])) =>
               \A k \in 1..Len(stages) : stages[k] \notin {"Compositing", "Assembled"}

\* ------------------------------------------------------------------- C9

\* The end of the interval in the call's capability document.
PublishedEnd ==
    LET i == CHOOSE j \in OwnDimensions : TRUE
    IN DT(doc.layers[i].text[2].t, doc.layers[i].text[2].off)

\* C9: a get_latest_frame call resolves the range first, issues one tile
\* fetch, for the end of the interval its own capability request returned,
\* and composites the body it got with that same end.
C9_LatestFetchesEnd ==
    IsLatest =>
        /\ Len(capability_requests) = 1
        /\ stages[1] = "ResolvingRange"
        /\ Len(tile_requests) <= 1
        /\ pc \in {"fetching", "fetched", "returned"} => Len(tile_requests) = 1
        /\ \A i \in 1..Len(tile_requests) :
               tile_requests[i] = RadarParams(radar, PublishedEnd)
        /\ pc = "returned" =>
               /\ result.frames = frames
               /\ Len(frames) = 1
               /\ frames[1].radar = tasks[1].body
               /\ frames[1].radar.of = tile_requests[1]
               /\ frames[1].label = Label(radar, PublishedEnd, localtz)

\* A still returned for an interval whose start and end differ.
C9_Witness ==
    /\ IsLatest
    /\ pc = "returned"
    /\ start.t < end.t
    /\ tile_requests[1].time = StrfTime(end)

\* ------------------------------------------------------------------ C10

SessionConfig ==
    <<radar.precip_type, radar.layer, radar.bbox, radar.map_params, radar.width,
      radar.height, radar.base_bytes, radar.legend_image, radar.legend_position>>

\* C10: no step of any call changes the session's precipitation kind,
\* layer, bounding box, size, basemap bytes, legend image or legend
\* position, or issues a basemap or legend request: each was requested once,
\* at construction, and every frame carries that basemap and legend.
C10_SessionFrozen ==
    /\ [](/\ Len(basemap_requests) = 1
          /\ Len(legend_requests) = 1
          /\ \A i \in 1..Len(frames) :
                 /\ frames[i].base = radar.base_bytes
                 /\ frames[i].legend = radar.legend_image
                 /\ frames[i].legend_position = radar.legend_position)
    /\ [][/\ SessionConfig' = SessionConfig
          /\ basemap_requests' = basemap_requests
          /\ legend_requests' = legend_requests]_vars

\* An animation returned whose frames differ in their radar layer and all
\* carry the session's basemap.
C10_Witness ==
    /\ IsGetLoop
    /\ pc = "returned"
    /\ Len(frame_times) >= 2
    /\ frames[1].radar # frames[2].radar
    /\ frames[1].base = radar.base_bytes
    /\ frames[2].base = radar.base_bytes

\* ------------------------------------------------------------------ C11

\* C11: after a get_loop call has returned, self.timestamp is the isoformat
\* of the last scheduled timestamp; after a get_latest_frame call has
\* returned, it is the isoformat of the fetched frame's timestamp.
C11_TimestampIsLastFrame ==
    /\ (IsGetLoop /\ pc = "returned") =>
           radar.timestamp = IsoFormat(frame_times[Len(frame_times)])
    /\ (IsLatest /\ pc = "returned") =>
           radar.timestamp = IsoFormat(LatestOf(start, end))

\* ------------------------------------------------------------------ C13

\* The instant of a datetime, in UTC, cut to the whole minute.
UtcMinute(dt) == (dt.t \div 60) * 60

\* C13: the time parameter of every radar GetMap request is the instant of
\* its frame timestamp expressed in UTC and cut to the whole minute,
\* whatever UTC offset the timestamp carries.
C13_TimeParameterIsUtc ==
    /\ IsGetLoop =>
           \A i \in 1..Len(tile_requests) :
               tile_requests[i].time = UtcMinute(frame_times[i])
    /\ IsLatest =>
           \A i \in 1..Len(tile_requests) : tile_requests[i].time = UtcMinute(end)

\* ------------------------------------------------------------------ C14

\* C14: in get_loop every tile request is issued before the call waits,
\* and while a fetch of the call is outstanding the call is still suspended
\* in its await, has composited no frame and has emitted nothing.
C14_BarrierBeforeCompositing ==
    IsGetLoop =>
        /\ pc = "fetching" => Len(tile_requests) = Len(frame_times)
        /\ (\E i \in 1..Len(tasks) : tasks[i].state = "pending") =>
               /\ pc = "fetching"
               /\ frames = <<>>
               /\ encoder_input = <<>>
               /\ result = NoResult

\* ------------------------------------------------------------------ C16

\* C16: once a get_loop call has returned or raised, none of its fetches is
\* still in flight, and none is in flight on a closed ClientSession.
C16_NoFetchOutlivesTheRun ==
    IsGetLoop =>
        /\ pc \in {"returned", "raised"} =>
               \A i \in 1..Len(tasks) : tasks[i].state # "pending"
        /\ session_closed =>
               \A i \in 1..Len(tasks) : tasks[i].state # "pending"

\* ------------------------------------------------------------------ C17

\* C17: self.timestamp changes only in the step in which a get_dimensions
\* succeeds, to the isoformat of the end it parsed; a get_dimensions that
\* fails leaves it as it was, and so does every later step of the call.
C17_TimestampWrittenOnSuccessOnly ==
    [][/\ (pc = "idle" /\ pc' = "raised") => radar'.timestamp = radar.timestamp
       /\ pc # "idle" => radar'.timestamp = radar.timestamp
       /\ radar'.timestamp # radar.timestamp =>
              /\ pc = "idle"
              /\ pc' \in {"resolved", "returned"}
              /\ error' = NoError
              /\ radar'.timestamp = IsoFormat(end')]_vars

\* A call ended by an endpoint that does not parse, on an object whose
\* timestamp still is the string an earlier call stored.
C17_Witness ==
    /\ pc = "raised"
    /\ error = [stage |-> "resolve", exc |-> "ValueError"]
    /\ radar.timestamp.kind = "isoformat"

\* ------------------------------------------------------------------ C12

\* The start of the interval in the call's capability document.
PublishedStart ==
    LET i == CHOOSE j \in OwnDimensions : TRUE
    IN DT(doc.layers[i].text[1].t, doc.layers[i].text[1].off)

\* C12: every get_latest_frame and get_loop call issues a capability
\* request of its own, and schedules and fetches from the interval in the
\* answer to that request, whatever an earlier call obtained.
C12_RangeResolvedAnew ==
    (op \in {"get_latest_frame", "get_loop"} /\ error.stage # "resolve") =>
        /\ Len(capability_requests) = 1
        /\ capability_requests[1].layer = radar.layer
        /\ start = PublishedStart
        /\ end = PublishedEnd
        /\ IsLatest =>
               \A i \in 1..Len(tile_requests) :
                   tile_requests[i] = RadarParams(radar, PublishedEnd)
        /\ (IsGetLoop /\ pc # "resolved") =>
               /\ frame_times[1] = PublishedStart
               /\ \A i \in 2..Len(frame_times) :
                      /\ frame_times[i] = AddMinutes(frame_times[i - 1], CadenceMinutes)
                      /\ ~After(frame_times[i], PublishedEnd)
               /\ After(AddMinutes(frame_times[Len(frame_times)], CadenceMinutes),
                        PublishedEnd)
               /\ \A i \in 1..Len(tile_requests) :
                      tile_requests[i] = RadarParams(radar, frame_times[i])

\* A still returned by a call that began on an object whose timestamp an
\* earlier call had set from a different published end.
C12_Witness ==
    /\ IsLatest
    /\ pc = "returned"
    /\ timestamp_at_call.kind = "isoformat"
    /\ timestamp_at_call # IsoFormat(end)
    /\ tile_requests[1].time = StrfTime(PublishedEnd)

\* ------------------------------------------------------------------ C15

\* What thread t passed to the constructor, as map_params holds it.
OwnMapParams(t) ==
    [bbox |-> BBoxString(DefaultRadius, threads[t].coordinates),
     width |-> threads[t].width, height |-> DefaultHeight]

\* C15: every request carries the configuration of the object that issued
\* it: the legend and capability requests its layer (and the legend its
\* style), the basemap and tile requests its bounding box and pixel size,
\* the tile request its layer, whatever the other objects are doing.
C15_RequestsCarryOwnConfiguration ==
    \A q \in sent :
        LET precip == PrecipType(threads[q.by].precip_arg, 1)
            own == OwnMapParams(q.by)
        IN /\ q.request = "GetLegendGraphic" =>
                  q.layers = layer[precip] /\ q.style = legend_style[precip]
           /\ q.request = "GetCapabilities" => q.layers = layer[precip]
           /\ q.request = "GetMap" =>
                  /\ q.bbox = own.bbox /\ q.width = own.width /\ q.height = own.height
                  /\ q.layers \in {"CBMT", layer[precip]}

====
